---- MODULE Spec2Model ----
(***************************************************************************)
(* A model of stream3-concat (src/index.js): a PassThrough stream (the     *)
(* sink) that readable streams (the sources) are piped into with           *)
(* {end: false}, and that ends itself when its list of sources runs empty. *)
(*                                                                         *)
(* The sink and the sources are node streams (stream 3 API).  What the     *)
(* model keeps of them is what index.js relies on:                         *)
(*   - a source produces data and ends only while it is piped somewhere;   *)
(*     the model's sources have no consumer but the sink, and each         *)
(*     produces up to MaxItems items, then ends;                           *)
(*   - source.unpipe(sink) removes one pipe connection, if there is one,   *)
(*     and emits 'unpipe' on the sink, synchronously;                      *)
(*   - sink.end() is idempotent; the sink's 'end' notification is emitted  *)
(*     from process.nextTick once the sink is flowing and drained, and     *)
(*     only then does sink.readable turn false;                            *)
(*   - process.nextTick callbacks run before any setImmediate callback or  *)
(*     source event; setImmediate callbacks run in FIFO order;             *)
(*   - a write to a sink whose end() was called emits 'error' on the sink, *)
(*     and pipe's error handler unpipes the writing source;                *)
(*   - the consumer listens to 'data', 'end', 'close' and 'error' from     *)
(*     construction, so the sink flows until close() pauses it.            *)
(***************************************************************************)
EXTENDS Integers, Sequences, FiniteSets, TLC

\* Bounds of the model.
NumSources == 2
MaxItems == 3
MaxCalls == 2

\* The readable streams of the environment, and a value that is no stream.
Sources == 1..NumSources
Invalid == 0
Values == Sources \cup {Invalid}

\* The messages of the two errors add throws.
ClosedError == "Stream is closed"
InvalidSourceError == "Invalid readable stream"

VARIABLES
    _closed,        \* this._closed
    _sources,       \* this._sources, an array of sources
    endListeners,   \* per source: the once('end') listeners add installed, not yet fired
    pipes,          \* per source: its pipe connections to the sink
    immediates,     \* the setImmediate queue
    pos,            \* per source: the number of items it has produced
    srcEnded,       \* per source: it has emitted 'end'
    sinkEnding,     \* the sink's end() was called
    readable,       \* this.readable: the sink has not emitted 'end'
    flowing,        \* the sink delivers to its consumer (pause() was not called)
    buffer,         \* data written to a paused sink
    delivered,      \* per source and item: the 'data' notifications the consumer got
    events,         \* the 'end', 'close' and 'error' notifications the consumer got, in order
    lastCall,       \* the last call of add, remove, clear or close, and what it returned or threw
    ncalls          \* the number of such calls

vars == <<_closed, _sources, endListeners, pipes, immediates, pos, srcEnded,
          sinkEnding, readable, flowing, buffer, delivered, events, lastCall,
          ncalls>>

srcVars == <<pos, srcEnded>>

----------------------------------------------------------------------------
\* Values of the model

PipeTask(source) == [type |-> "pipe", src |-> source]
CloseTask == [type |-> "close", src |-> 0]

EndEvent == "end"
CloseEvent == "close"
ErrorEvent == "error"

RECURSIVE Repeat(_, _)
Repeat(e, n) == IF n = 0 THEN <<>> ELSE <<e>> \o Repeat(e, n - 1)

\* The arguments add is called with: one value, or an array of up to two
\* values (two streams of an array are distinct, and as the streams are
\* alike, in increasing order).
One(v) == [isArray |-> FALSE, items |-> <<v>>]
Array(vs) == [isArray |-> TRUE, items |-> vs]
AddArgs == {One(v) : v \in Values}
           \cup {Array(<<>>)}
           \cup {Array(<<v>>) : v \in Values}
           \cup {Array(<<v, w>>) : v \in Values, w \in {Invalid}}
           \cup {Array(<<v, w>>) : v \in {Invalid}, w \in Values}
           \cup {Array(p) : p \in {q \in Sources \X Sources : q[1] < q[2]}}

\* The arrays of streams the constructor is given: distinct streams, in any
\* order.
InitArrays ==
    {a \in UNION {[1..n -> Sources] : n \in 0..NumSources} :
        \A i, j \in DOMAIN a : a[i] = a[j] => i = j}

----------------------------------------------------------------------------
\* index.js

isReadableStream(arg) == arg \in Sources

\* (an add that pushes the source before it looks at it)
addOne_pushFirst(reg, source) ==
    IF ~isReadableStream(source)
    THEN [reg EXCEPT !.sources = Append(@, source),
                     !.thrown = InvalidSourceError]
    ELSE [reg EXCEPT !.sources = Append(@, source),
                     !.listeners[source] = @ + 1,
                     !.immediates = Append(@, PipeTask(source))]

\* (an add whose deferred pipe runs before what was deferred earlier)
addOne_jumpsQueue(reg, source) ==
    IF ~isReadableStream(source)
    THEN [reg EXCEPT !.thrown = InvalidSourceError]
    ELSE [reg EXCEPT !.sources = Append(@, source),
                     !.listeners[source] = @ + 1,
                     !.immediates = <<PipeTask(source)>> \o @]

\* add, on reg = [sources, listeners, immediates, thrown]
addOne(reg, source) ==
    IF ~isReadableStream(source)
    THEN [reg EXCEPT !.thrown = InvalidSourceError]
    ELSE [reg EXCEPT !.sources = Append(@, source),
                     !.listeners[source] = @ + 1,
                     !.immediates = Append(@, PipeTask(source))]

\* (a forEach that catches what an element throws and goes on)
RECURSIVE addEach_goesOn(_, _)
addEach_goesOn(reg, list) ==
    IF list = <<>>
    THEN reg
    ELSE LET one == addOne(reg, Head(list))
         IN  addEach_goesOn([one EXCEPT !.thrown =
                                IF reg.thrown # "none" THEN reg.thrown ELSE @],
                            Tail(list))

\* source.forEach(this.add.bind(this)): an element's throw leaves forEach
RECURSIVE addEach(_, _)
addEach(reg, list) ==
    IF list = <<>> \/ reg.thrown # "none"
    THEN reg
    ELSE addEach(addOne(reg, Head(list)), Tail(list))

\* (an add that does not look at this._closed)
isClosed_notLookedAt(closed) == FALSE

isClosed(closed) == closed = TRUE

add(reg, arg, closed) ==
    IF isClosed(closed)
    THEN [reg EXCEPT !.thrown = ClosedError]
    ELSE IF arg.isArray
         THEN addEach(reg, arg.items)
         ELSE addOne(reg, arg.items[1])

\* remove, on st = [sources, pipes, ending]; rd is this.readable
filterOut(sources, source) == SelectSeq(sources, LAMBDA item : item # source)

\* (a remove that ends the sink whatever is left)
shouldEnd_whateverIsLeft(sources, rd) == rd

\* (a remove that looks at the length before the source is gone)
shouldEnd_oneLeft(sources, rd) == Len(sources) = 1 /\ rd

shouldEnd(sources, rd) == Len(sources) = 0 /\ rd

\* (an instance that does not listen to the sink's 'unpipe')
unpipe_notListened(st, source, rd) ==
    IF st.pipes[source] > 0
    THEN [st EXCEPT !.pipes[source] = @ - 1]
    ELSE st

RECURSIVE remove(_, _, _), unpipe(_, _, _)
\* source.unpipe(this), and the sink's 'unpipe' listener, which is remove
unpipe(st, source, rd) ==
    IF st.pipes[source] > 0
    THEN remove([st EXCEPT !.pipes[source] = @ - 1], source, rd)
    ELSE st

\* (a remove that takes the sink's end back when streams are left)
remove_forgetsEnd(st, source, rd) ==
    LET unpiped == unpipe(st, source, rd)
        kept == filterOut(unpiped.sources, source)
    IN  [sources |-> kept,
         pipes |-> unpiped.pipes,
         ending |-> shouldEnd(kept, rd)]

remove(st, source, rd) ==
    LET unpiped == unpipe(st, source, rd)
        kept == filterOut(unpiped.sources, source)
    IN  [sources |-> kept,
         pipes |-> unpiped.pipes,
         ending |-> unpiped.ending \/ shouldEnd(kept, rd)]

\* (a forEach that stops after the first element)
clearEach_firstOnly(st, list, rd) ==
    IF list = <<>> THEN st ELSE remove(st, Head(list), rd)

\* this._sources.forEach(source => this.remove(source)), over the array as
\* it was when forEach began
RECURSIVE clearEach(_, _, _)
clearEach(st, list, rd) ==
    IF list = <<>>
    THEN st
    ELSE clearEach(remove(st, Head(list), rd), Tail(list), rd)

\* (a clear over an array that remove shortens under it: every other
\* element is passed over)
clear_passesOver(st, rd) ==
    clearEach(st, SelectSeq(st.sources, LAMBDA item : item = Head(st.sources)), rd)

clear(st, rd) == clearEach(st, st.sources, rd)

\* (a pipe without {end: false}: the source's 'end' ends the sink)
RECURSIVE fireEnd_pipeEnds(_, _, _, _)
fireEnd_pipeEnds(st, source, n, rd) ==
    IF n = 0
    THEN [st EXCEPT !.ending = TRUE]
    ELSE fireEnd_pipeEnds(remove(st, source, rd), source, n - 1, rd)

\* a source's once('end') listeners, each a remove of the source
RECURSIVE fireEnd(_, _, _, _)
fireEnd(st, source, n, rd) ==
    IF n = 0 THEN st ELSE fireEnd(remove(st, source, rd), source, n - 1, rd)

----------------------------------------------------------------------------
\* The state of the Concat the operators above work on

Reg == [sources |-> _sources, listeners |-> endListeners,
        immediates |-> immediates, thrown |-> "none"]

St == [sources |-> _sources, pipes |-> pipes, ending |-> sinkEnding]

SetSt(st) ==
    /\ _sources' = st.sources
    /\ pipes' = st.pipes
    /\ sinkEnding' = st.ending

Called(op, ret) ==
    /\ lastCall' = [op |-> op, ret |-> ret]
    /\ ncalls' = ncalls + 1

\* The sink's 'end' is due: a process.nextTick callback is pending
EndPending == sinkEnding /\ flowing /\ buffer = <<>> /\ readable

----------------------------------------------------------------------------
\* Construction

Concat(streams) ==
    LET reg == addEach([sources |-> <<>>, listeners |-> [s \in Sources |-> 0],
                        immediates |-> <<>>, thrown |-> "none"], streams)
    IN  /\ _closed = FALSE
        /\ _sources = reg.sources
        /\ endListeners = reg.listeners
        /\ immediates = reg.immediates
        /\ pipes = [s \in Sources |-> 0]
        /\ pos = [s \in Sources |-> 0]
        /\ srcEnded = [s \in Sources |-> FALSE]
        /\ sinkEnding = FALSE
        /\ readable = TRUE
        /\ flowing = TRUE
        /\ buffer = <<>>
        /\ delivered = [s \in Sources |-> <<>>]
        /\ events = <<>>
        /\ lastCall = [op |-> "new", ret |-> "this"]
        /\ ncalls = 0

Init == \E streams \in InitArrays : Concat(streams)

----------------------------------------------------------------------------
\* The calls

AddCall(arg) ==
    /\ ncalls < MaxCalls
    /\ LET reg == add(Reg, arg, _closed)
       IN  /\ _sources' = reg.sources
           /\ endListeners' = reg.listeners
           /\ immediates' = reg.immediates
           /\ Called("add", IF reg.thrown = "none" THEN "this" ELSE reg.thrown)
    /\ UNCHANGED <<_closed, pipes, sinkEnding, readable, flowing, buffer,
                   delivered, events>>
    /\ UNCHANGED srcVars

RemoveCall(source) ==
    /\ ncalls < MaxCalls
    /\ SetSt(remove(St, source, readable))
    /\ Called("remove", "this")
    /\ UNCHANGED <<_closed, endListeners, immediates, readable, flowing, buffer,
                   delivered, events>>
    /\ UNCHANGED srcVars

ClearCall ==
    /\ ncalls < MaxCalls
    /\ SetSt(clear(St, readable))
    /\ Called("clear", "this")
    /\ UNCHANGED <<_closed, endListeners, immediates, readable, flowing, buffer,
                   delivered, events>>
    /\ UNCHANGED srcVars

closeReturn(closed) == IF closed THEN "undefined" ELSE "this"

\* (a close that does not look at this._closed)
CloseCall_notGuarded ==
    /\ ncalls < MaxCalls
    /\ Called("close", closeReturn(_closed))
    /\ _closed' = TRUE
    /\ SetSt(clear(St, readable))
    /\ immediates' = Append(immediates, CloseTask)
    /\ UNCHANGED <<endListeners, readable, flowing, buffer, delivered, events>>
    /\ UNCHANGED srcVars

\* (a close that opens an instance that is closed)
CloseCall_reopens ==
    /\ ncalls < MaxCalls
    /\ Called("close", closeReturn(_closed))
    /\ IF _closed
       THEN /\ _closed' = FALSE
            /\ UNCHANGED <<_sources, pipes, sinkEnding, immediates>>
       ELSE /\ _closed' = TRUE
            /\ SetSt(clear(St, readable))
            /\ immediates' = Append(immediates, CloseTask)
    /\ UNCHANGED <<endListeners, readable, flowing, buffer, delivered, events>>
    /\ UNCHANGED srcVars

CloseCall ==
    /\ ncalls < MaxCalls
    /\ Called("close", closeReturn(_closed))
    /\ IF _closed
       THEN UNCHANGED <<_closed, _sources, pipes, sinkEnding, immediates>>
       ELSE /\ _closed' = TRUE
            /\ SetSt(clear(St, readable))
            /\ immediates' = Append(immediates, CloseTask)
    /\ UNCHANGED <<endListeners, readable, flowing, buffer, delivered, events>>
    /\ UNCHANGED srcVars

\* The consumer side disconnects a source: source.unpipe(concat)
ExternalUnpipe(source) ==
    /\ pipes[source] > 0
    /\ SetSt(unpipe(St, source, readable))
    /\ UNCHANGED <<_closed, endListeners, immediates, readable, flowing, buffer,
                   delivered, events, lastCall, ncalls>>
    /\ UNCHANGED srcVars

----------------------------------------------------------------------------
\* The event loop

\* setImmediate(() => source.pipe(this, {end: false})).  Piping a source that
\* has ended already: node of the stream 3 time leaves it piped, later node
\* unpipes it on the next tick.
RunPipe ==
    /\ ~EndPending
    /\ immediates # <<>>
    /\ Head(immediates).type = "pipe"
    /\ LET source == Head(immediates).src
           piped == [St EXCEPT !.pipes[source] = @ + 1]
       IN  \E unpipeEnded \in BOOLEAN :
               SetSt(IF srcEnded[source] /\ unpipeEnded
                     THEN unpipe(piped, source, readable)
                     ELSE piped)
    /\ immediates' = Tail(immediates)
    /\ UNCHANGED <<_closed, endListeners, readable, flowing, buffer, delivered,
                   events,
                   lastCall, ncalls>>
    /\ UNCHANGED srcVars

\* (a deferred callback of close that emits 'close' and does not pause)
RunClose_noPause ==
    /\ ~EndPending
    /\ immediates # <<>>
    /\ Head(immediates).type = "close"
    /\ immediates' = Tail(immediates)
    /\ events' = Append(events, CloseEvent)
    /\ UNCHANGED <<_closed, _sources, endListeners, pipes, sinkEnding, readable,
                   flowing, buffer, delivered, lastCall, ncalls>>
    /\ UNCHANGED srcVars

\* setImmediate(() => { this.pause(); this.emit('close') })
RunClose ==
    /\ ~EndPending
    /\ immediates # <<>>
    /\ Head(immediates).type = "close"
    /\ immediates' = Tail(immediates)
    /\ flowing' = FALSE
    /\ events' = Append(events, CloseEvent)
    /\ UNCHANGED <<_closed, _sources, endListeners, pipes, sinkEnding, readable,
                   buffer, delivered, lastCall, ncalls>>
    /\ UNCHANGED srcVars

\* A piped source produces its next item: every pipe connection writes it
\* to the sink.
SourceData(source) ==
    /\ ~EndPending
    /\ pipes[source] > 0
    /\ ~srcEnded[source]
    /\ pos[source] < MaxItems
    /\ pos' = [pos EXCEPT ![source] = @ + 1]
    /\ IF sinkEnding
       THEN /\ events' = events \o Repeat(ErrorEvent, pipes[source])
            /\ delivered' = [delivered EXCEPT ![source] = Append(@, 0)]
            /\ SetSt(unpipe(St, source, readable))
            /\ UNCHANGED buffer
       ELSE /\ IF flowing
               THEN /\ delivered' = [delivered EXCEPT
                                        ![source] = Append(@, pipes[source])]
                    /\ UNCHANGED buffer
               ELSE /\ delivered' = [delivered EXCEPT ![source] = Append(@, 0)]
                    /\ buffer' = buffer \o Repeat(<<source, pos[source] + 1>>,
                                                  pipes[source])
            /\ UNCHANGED <<_sources, pipes, sinkEnding, events>>
    /\ UNCHANGED <<_closed, endListeners, immediates, srcEnded, readable,
                   flowing, lastCall, ncalls>>

\* A piped source has nothing more to produce and emits 'end'.
SourceEnd(source) ==
    /\ ~EndPending
    /\ pipes[source] > 0
    /\ ~srcEnded[source]
    /\ srcEnded' = [srcEnded EXCEPT ![source] = TRUE]
    /\ SetSt(fireEnd(St, source, endListeners[source], readable))
    /\ endListeners' = [endListeners EXCEPT ![source] = 0]
    /\ UNCHANGED <<_closed, immediates, pos, readable, flowing, buffer,
                   delivered, events, lastCall, ncalls>>

\* process.nextTick: the ended, drained, flowing sink emits 'end'.
EmitEnd ==
    /\ EndPending
    /\ events' = Append(events, EndEvent)
    /\ readable' = FALSE
    /\ UNCHANGED <<_closed, _sources, endListeners, pipes, immediates, sinkEnding,
                   flowing, buffer, delivered, lastCall, ncalls>>
    /\ UNCHANGED srcVars

----------------------------------------------------------------------------

\* What runs when no call is made and nothing was closed
Loop ==
    \/ RunPipe
    \/ \E s \in Sources : SourceData(s)
    \/ \E s \in Sources : SourceEnd(s)
    \/ EmitEnd

Next ==
    \/ \E arg \in AddArgs : AddCall(arg)
    \/ \E s \in Sources : RemoveCall(s)
    \/ ClearCall
    \/ CloseCall
    \/ \E s \in Sources : ExternalUnpipe(s)
    \/ RunClose
    \/ Loop

Spec == Init /\ [][Next]_vars

\* The event loop alone, after construction: no call is made.  Every
\* callback that is due runs, and a piped source ends in the end.
LoopSpec ==
    /\ Init
    /\ [][Loop]_vars
    /\ WF_vars(RunPipe)
    /\ WF_vars(EmitEnd)
    /\ \A s \in Sources : WF_vars(SourceEnd(s))

----------------------------------------------------------------------------
\* Notions the properties below share

Range(f) == {f[i] : i \in DOMAIN f}

Member(source) == source \in Range(_sources)

EndCount == Cardinality({i \in DOMAIN events : events[i] = EndEvent})

CloseCount == Cardinality({i \in DOMAIN events : events[i] = CloseEvent})

\* Every item the source produced reached the consumer once, and nothing else
DeliveredOnce(source) ==
    /\ Len(delivered[source]) = pos[source]
    /\ \A k \in DOMAIN delivered[source] : delivered[source][k] = 1

\* All that was produced was delivered, every registered source has ended,
\* and then the sink has emitted 'end', once
Complete ==
    /\ \A s \in Sources : endListeners[s] = 0 /\ DeliveredOnce(s)
    /\ events = <<EndEvent>>

NoDataAfterEnd == [][EndCount > 0 => delivered' = delivered]_vars

----------------------------------------------------------------------------
\* C1
\* C1 as claimed: whatever streams the constructor is given, with no call
\* made afterwards, the consumer ends up with every item the streams
\* produced, each once, and then with one 'end'.
C1_AnySetCompletes == <>[]Complete

\* C1, amended: when the constructor is given at least one stream and no call
\* is made afterwards, then under every interleaving of the streams the
\* consumer ends up with every item the streams produced, each once, and then
\* with one 'end'; no item is ever delivered twice, none after the 'end'.
C1_NonEmptySetCompletes ==
    /\ (_sources # <<>>) => <>[]Complete
    /\ [](\A s \in Sources : \A k \in DOMAIN delivered[s] : delivered[s][k] = 1)
    /\ [](EndCount <= 1)
    /\ NoDataAfterEnd

\* Two streams were given, both have produced items, all were delivered and
\* the sink has ended.
C1_Witness ==
    /\ Complete
    /\ \A s \in {1, 2} : srcEnded[s] /\ pos[s] >= 1

----------------------------------------------------------------------------
\* C2
\* No stream was ever registered: add leaves a listener on the stream that
\* only the stream's 'end' takes away.
NoSourceEver ==
    \A s \in Sources :
        endListeners[s] = 0 /\ ~srcEnded[s] /\ pipes[s] = 0 /\ pos[s] = 0

\* C2: an instance constructed with no stream, on which close() is the one
\* call made, has given its consumer one 'end' and then one 'close', and no
\* data, once the deferred callback of close() has run.
C2_CloseOfEmptyEndsThenCloses ==
    (NoSourceEver /\ ncalls = 1 /\ lastCall.op = "close" /\ immediates = <<>>)
        => /\ events = <<EndEvent, CloseEvent>>
           /\ buffer = <<>> /\ \A s \in Sources : delivered[s] = <<>>

----------------------------------------------------------------------------
\* C3
\* C3: remove(s) of a stream s that is not in this._sources changes neither
\* this._sources nor the sink's ended or closed status, and no notification
\* follows from it.
C3_RemoveOfNonMemberIsNoOp ==
    [][\A s \in Sources :
          (RemoveCall(s) /\ ~Member(s))
              => UNCHANGED <<_sources, pipes, _closed, sinkEnding, readable, events,
                             immediates>>]_vars

----------------------------------------------------------------------------
\* C4
\* The step takes the last stream out of this._sources: a remove(s), the
\* 'end' of s, or an 'unpipe' of s that the consumer's side causes.
RemovesLast(s) ==
    /\ RemoveCall(s) \/ SourceEnd(s) \/ ExternalUnpipe(s)
    /\ Member(s)
    /\ _sources' = <<>>

\* After the step the sink is ended and its 'end' notification is due: the
\* consumer gets it, once, on the next tick
YieldsEnd == sinkEnding' /\ EndPending'

\* The step leaves the sink's end and its notifications as they were
YieldsNothing == UNCHANGED <<sinkEnding, readable, events>>

\* C4 as claimed: a step that removes the last stream ends the sink and
\* yields its 'end'.
C4_RemovingLastYieldsEnd ==
    [][\A s \in Sources : RemovesLast(s) => YieldsEnd]_vars

\* C4, amended: a step that removes the last stream leaves the sink ended;
\* when the sink has not emitted its 'end' yet, the step yields it, and when
\* it has (the stream was added to a sink that had ended), the step yields
\* nothing more; remove of a stream that is not in this._sources yields no
\* second 'end', and the consumer never gets more than one.
C4_RemovingLastYieldsEndOnce ==
    /\ [][\A s \in Sources :
            RemovesLast(s)
                => /\ sinkEnding'
                   /\ IF readable THEN YieldsEnd ELSE YieldsNothing]_vars
    /\ [][\A s \in Sources :
            (RemoveCall(s) /\ ~Member(s) /\ ~readable) => YieldsNothing]_vars
    /\ [](EndCount <= 1)

\* Stream 1, given to the constructor, was removed while it was the last
\* one, remove was called again, and the sink has emitted its one 'end'.
C4_Witness ==
    /\ lastCall.op = "remove" /\ ncalls = 2
    /\ ~_closed /\ _sources = <<>>
    /\ endListeners[1] = 1 /\ endListeners[2] = 0
    /\ \A s \in Sources : ~srcEnded[s]
    /\ events = <<EndEvent>>

----------------------------------------------------------------------------
----------------------------------------------------------------------------
\* C6
\* C6: on an instance that close() was called on, add of any argument throws
\* 'Stream is closed' and leaves this._sources, the 'end' listeners of the
\* streams and the setImmediate queue as they were.
C6_AddAfterCloseThrows ==
    [][\A arg \in AddArgs :
          (AddCall(arg) /\ _closed)
              => /\ lastCall'.ret = ClosedError
                 /\ UNCHANGED <<_sources, endListeners, immediates, pipes>>]_vars

\* add was called after close(), and threw.
C6_Witness ==
    /\ _closed
    /\ lastCall = [op |-> "add", ret |-> ClosedError]

----------------------------------------------------------------------------
\* C7
NotRegistered == UNCHANGED <<_sources, endListeners, immediates, pipes>>

\* C7 as claimed: add(v) of a value v that is no readable stream throws
\* 'Invalid readable stream', registers nothing, installs no listener and
\* defers nothing.
C7_AddOfInvalidThrowsInvalid ==
    [][\A v \in Values \ Sources :
          AddCall(One(v)) => (lastCall'.ret = InvalidSourceError /\ NotRegistered)]_vars

\* C7, amended: add(v) of a value v that is no readable stream, on an
\* instance that is not closed, throws 'Invalid readable stream'; on a closed
\* instance it throws 'Stream is closed'; either way it registers nothing,
\* installs no listener and defers nothing.
C7_AddOfInvalidThrows ==
    [][\A v \in Values \ Sources :
          AddCall(One(v))
              => /\ lastCall'.ret = IF _closed THEN ClosedError ELSE InvalidSourceError
                 /\ NotRegistered]_vars

\* add threw 'Invalid readable stream' on an instance with a stream
\* registered.
C7_Witness ==
    /\ lastCall = [op |-> "add", ret |-> InvalidSourceError]
    /\ ncalls = 1 /\ _sources = <<1>> /\ immediates = <<PipeTask(1)>>

----------------------------------------------------------------------------
\* C8
Valid(list) == SelectSeq(list, isReadableStream)

RECURSIVE ValidPrefix(_)
ValidPrefix(list) ==
    IF list = <<>> \/ ~isReadableStream(Head(list))
    THEN <<>>
    ELSE <<Head(list)>> \o ValidPrefix(Tail(list))

HasInvalid(arg) == \E i \in DOMAIN arg.items : ~isReadableStream(arg.items[i])

----------------------------------------------------------------------------
\* C9
\* C9: a call of add, remove, clear or close that does not throw returns the
\* instance.
C9_CallsReturnThis ==
    lastCall.ret \notin {ClosedError, InvalidSourceError} => lastCall.ret = "this"

----------------------------------------------------------------------------
\* C10
\* C10: no stream is twice in this._sources.
C10_NoSourceTwice ==
    \A i, j \in DOMAIN _sources : _sources[i] = _sources[j] => i = j

----------------------------------------------------------------------------
\* C11
\* The close callbacks that are queued or have run
CloseTasks == Cardinality({i \in DOMAIN immediates : immediates[i] = CloseTask})

\* C11: close() on an instance that is closed changes nothing of the
\* instance, the sink or the setImmediate queue; at any time at most one
\* 'close' is queued or was emitted, so the consumer never gets a second.
C11_CloseIsIdempotent ==
    /\ [][(CloseCall /\ _closed)
            => UNCHANGED <<_closed, _sources, endListeners, pipes, immediates,
                           pos, srcEnded, sinkEnding, readable, flowing, buffer,
                           delivered, events>>]_vars
    /\ [](CloseCount + CloseTasks <= 1)

\* close() was called twice, and the one 'close' was emitted.
C11_Witness ==
    /\ ncalls = 2 /\ lastCall = [op |-> "close", ret |-> "undefined"]
    /\ immediates = <<>> /\ CloseCount = 1

----------------------------------------------------------------------------
\* C12
\* C12: no step takes this._closed from true to false.
C12_ClosedIsPermanent == [][_closed => _closed']_vars

\* The instance was closed, its 'close' was emitted, and a remove was called
\* after that.
C12_Witness ==
    /\ _closed /\ CloseCount = 1
    /\ ncalls = 2 /\ lastCall.op = "remove"

----------------------------------------------------------------------------
\* C13
\* Another stream than s is in this._sources
OthersRegistered(s) == \E t \in Range(_sources) : t # s

\* C13: a step that ends the sink leaves this._sources empty; the 'end' of a
\* stream s while other streams are registered takes s, and nothing else, out
\* of this._sources and leaves the sink as it was: a sink that has not ended
\* stays not ended.
C13_EndOnlyWhenEmpty ==
    /\ [][(~sinkEnding /\ sinkEnding') => _sources' = <<>>]_vars
    /\ [][\A s \in Sources :
            (SourceEnd(s) /\ OthersRegistered(s))
                => /\ _sources' = filterOut(_sources, s)
                   /\ UNCHANGED <<sinkEnding, readable, events>>]_vars

\* Stream 1 has ended while stream 2 was registered: stream 2 is what is
\* left, and the sink has not ended.
C13_Witness ==
    /\ ncalls = 0 /\ srcEnded[1] /\ ~srcEnded[2]
    /\ _sources = <<2>> /\ pipes[2] = 1 /\ pos[2] >= 1
    /\ ~sinkEnding /\ events = <<>>

----------------------------------------------------------------------------
\* C14
\* C14: every stream that is piped into the sink is in this._sources (a
\* stream that was removed is not piped again by the callback its add
\* deferred).
C14_PipedIsRegistered == \A s \in Sources : pipes[s] > 0 => Member(s)

----------------------------------------------------------------------------
\* C15
\* The step delivers an item to the consumer
DataDelivered ==
    \E s \in Sources :
        /\ Len(delivered'[s]) > Len(delivered[s])
        /\ delivered'[s][Len(delivered'[s])] > 0

\* C15: close() on an instance that is not closed emits nothing itself: it
\* leaves this._sources empty and its callback queued; the step that emits
\* 'close' is a later one, on the closed instance, and it leaves the sink
\* paused; once 'close' was emitted, no item is delivered to the consumer.
C15_CloseIsDeferredAndPaused ==
    /\ [][(CloseCall /\ ~_closed)
            => /\ events' = events
               /\ _sources' = <<>>
               /\ immediates' = Append(immediates, CloseTask)]_vars
    /\ [][CloseCount' > CloseCount
            => /\ _closed /\ _sources = <<>>
               /\ ~CloseCall
               /\ ~flowing']_vars
    /\ [][CloseCount > 0 => ~DataDelivered]_vars
    /\ [](CloseCount > 0 => ~flowing)

\* An instance was closed before its stream was piped; the stream was piped
\* by the callback add had deferred, 'close' was emitted, and the item the
\* stream produced after that was not delivered.
C15_Witness ==
    /\ _closed /\ CloseCount = 1 /\ events[Len(events)] = ErrorEvent
    /\ \E s \in Sources : pos[s] = 1 /\ delivered[s] = <<0>>

----------------------------------------------------------------------------
\* C16
\* The deferred pipes of a list of streams, in the list's order
Wirings(list) == [i \in DOMAIN list |-> PipeTask(list[i])]

\* C16: add pipes nothing itself: the streams it registers are appended to
\* this._sources and their pipes to the end of the setImmediate queue, in
\* the order of the argument, and all of them when add returns; a stream is
\* piped, and 'close' is emitted, only by the step that takes the callback
\* from the head of the queue; the queue changes only at its two ends, so
\* the callbacks run in the order of the calls that deferred them.
C16_WiringIsDeferredInOrder ==
    /\ [][\A arg \in AddArgs :
            AddCall(arg)
                => /\ pipes' = pipes
                   /\ \E n \in 0..Len(arg.items) :
                        LET added == SubSeq(arg.items, 1, n)
                        IN  /\ _sources' = _sources \o added
                            /\ immediates' = immediates \o Wirings(added)
                            /\ lastCall'.ret = "this" => n = Len(arg.items)]_vars
    /\ [][\A s \in Sources :
            pipes'[s] > pipes[s]
                => /\ immediates # <<>> /\ Head(immediates) = PipeTask(s)
                   /\ immediates' = Tail(immediates)]_vars
    /\ [][CloseCount' > CloseCount
            => /\ immediates # <<>> /\ Head(immediates) = CloseTask
               /\ immediates' = Tail(immediates)]_vars
    /\ [][\/ immediates' = immediates
          \/ immediates # <<>> /\ immediates' = Tail(immediates)
          \/ \E list \in {<<>>} \cup {a.items : a \in AddArgs} :
                immediates' = immediates \o Wirings(Valid(list))
          \/ immediates' = Append(immediates, CloseTask)]_vars

\* The constructor was given stream 1, then add(2) and close() were called;
\* of the three callbacks the first has run: stream 1 is piped, the pipe of
\* stream 2 and the 'close' are queued in that order.
C16_Witness ==
    /\ _closed /\ ncalls = 2
    /\ immediates = <<PipeTask(2), CloseTask>>
    /\ pipes[1] = 1 /\ pipes[2] = 0 /\ CloseCount = 0

----------------------------------------------------------------------------
\* C17
\* The step leaves this._sources, the pipes and the sink's end as remove(s)
\* would
SameAsRemove(s) ==
    LET removed == remove(St, s, readable)
    IN  /\ _sources' = removed.sources
        /\ pipes' = removed.pipes
        /\ sinkEnding' = removed.ending

\* C17: an 'unpipe' of a stream s that the consumer's side causes, and the
\* 'end' of s, leave the instance as remove(s) would; after any of the three
\* s is not in this._sources, and when this._sources is empty then, the sink
\* is ended; none of them emits anything itself, or touches this._closed.
C17_UnpipeAndEndAreRemove ==
    /\ [][\A s \in Sources :
            (ExternalUnpipe(s) \/ SourceEnd(s)) => SameAsRemove(s)]_vars
    /\ [][\A s \in Sources :
            (ExternalUnpipe(s) \/ SourceEnd(s) \/ RemoveCall(s))
                => /\ s \notin Range(_sources')
                   /\ _sources' = filterOut(_sources, s)
                   /\ _sources' = <<>> => sinkEnding'
                   /\ UNCHANGED <<_closed, readable, events, immediates>>]_vars

\* No call was made; stream 1, the one stream registered, has not ended and
\* is not piped any more: it was unpiped from the consumer's side, and the
\* sink has ended.
C17_Witness ==
    /\ ncalls = 0 /\ _sources = <<>> /\ immediates = <<>>
    /\ endListeners[1] = 1 /\ endListeners[2] = 0
    /\ ~srcEnded[1] /\ pipes[1] = 0 /\ pos[1] >= 1
    /\ events = <<EndEvent>>

----------------------------------------------------------------------------
\* C18
\* C18: a sink whose end() was called stays so, and one that has emitted
\* 'end' stays so; add(s) of a stream s on an instance that is not closed and
\* whose sink is ended returns the instance, appends s to this._sources,
\* installs its 'end' listener and defers its pipe, and leaves the sink as it
\* was.
C18_DrainedStaysDrained ==
    /\ [][sinkEnding => sinkEnding']_vars
    /\ [][~readable => ~readable']_vars
    /\ [][\A s \in Sources :
            (AddCall(One(s)) /\ ~_closed /\ sinkEnding)
                => /\ lastCall'.ret = "this"
                   /\ _sources' = Append(_sources, s)
                   /\ endListeners' = [endListeners EXCEPT ![s] = @ + 1]
                   /\ immediates' = Append(immediates, PipeTask(s))
                   /\ UNCHANGED <<sinkEnding, readable, events, flowing>>]_vars

\* add(2) was called on an instance whose sink was ended; stream 2 is
\* registered and piped, and the one 'end' is all the consumer got.
C18_Witness ==
    /\ ~_closed /\ lastCall = [op |-> "add", ret |-> "this"]
    /\ _sources = <<2>> /\ pipes[2] = 1
    /\ sinkEnding /\ ~readable /\ events = <<EndEvent>>

----------------------------------------------------------------------------
\* C19
\* C19: this._sources of a closed instance is empty.
C19_ClosedIsEmpty == _closed => _sources = <<>>

\* close() was the one call, on an instance whose two streams were piped and
\* had produced items; both are out of this._sources and unpiped.
C19_Witness ==
    /\ _closed /\ ncalls = 1 /\ events = <<>> /\ immediates = <<CloseTask>>
    /\ \A s \in {1, 2} : endListeners[s] = 1 /\ pos[s] >= 1 /\ pipes[s] = 0
    /\ _sources = <<>>

====
